---- MODULE Spec2Model ----
(* Authentication state of the Conduit single-page application:             *)
(* JwtService (token store), UserService (session manager), initAuth        *)
(* (startup initializer), the error interceptor and AuthComponent.          *)
(* One action is one event-loop turn: a call made by the UI, or the         *)
(* arrival of one HTTP response with every callback it runs synchronously.  *)
EXTENDS Integers, Sequences, FiniteSets, TLC

(***************************************************************************)
(* Bounds                                                                  *)
(***************************************************************************)
\* requests that may be in flight at the same time
MaxInFlight == 2
\* size of the pool object identities are drawn from
NumRefs == 2
\* activations of one favorite or follow control whose subscription is alive
MaxActivations == 2
\* direct calls of JwtService in a sequence
MaxCalls == 4
\* queries one ArticleListComponent issues in its life
MaxQueries == 3
\* largest limit (articles per page) a parent binds; 0 is bound as well
MaxLimit == 2
\* largest articlesCount the server reports
MaxCount == 3

(***************************************************************************)
(* Values                                                                  *)
(***************************************************************************)
\* JavaScript undefined (a missing property, a missing localStorage entry)
Undefined == "<undefined>"

Usernames == {"jake", "anna"}
Tokens == {"abc", "xyz"}
Refs == 1..NumRefs

\* the null held by the BehaviorSubject when nobody is logged in
Null == [ref |-> 0, username |-> "", token |-> Undefined]

\* user payloads the server sends for login, register and GET /user:
\* the token is issued by the server with each of them
IssuedUsers == [username : Usernames, token : Tokens]
\* user payloads of PUT /user: the server may leave the token out
UpdatedUsers == [username : Usernames, token : Tokens \cup {Undefined}]

\* non-2xx responses (HttpErrorResponse): status and body
ErrorResponses ==
  { [status |-> 422, error |-> "errors: email or password is invalid"],
    [status |-> 401, error |-> "errors: token is invalid"],
    [status |-> 0, error |-> "ProgressEvent"] }

VARIABLES
  localStorage,        \* window.localStorage["jwtToken"], Undefined when absent
  currentUserSubject,  \* value of the BehaviorSubject<User | null>
  observer,            \* a subscriber of currentUser and of isAuthenticated
  directive,           \* an IfAuthenticatedDirective instance, when one is attached
  control,             \* a FavoriteButtonComponent or FollowButtonComponent
                       \* instance, when one is rendered
  calls,               \* the calls made of JwtService on their own, in order
  pending,             \* HTTP requests in flight
  phase,               \* application boot: "boot", "initializing", "starting",
                       \* "ready", "failed"
  authComponent,       \* the AuthComponent instance, when one is alive
  articleList,         \* the ArticleListComponent instance, when one is rendered
  comment,             \* an ArticleCommentComponent instance, when one is rendered
  lastOp               \* what the last turn did (history)

vars == <<articleList, comment, localStorage, currentUserSubject, observer,
         directive, control,
          calls, pending, phase, authComponent, lastOp>>

(***************************************************************************)
(* JwtService                                                              *)
(***************************************************************************)
\* what a Storage object keeps when a value is assigned to one of its keys:
\* the value converted to a string
ToDOMString(v) == IF v = Undefined THEN "undefined" ELSE v

\* JavaScript truthiness of a string or undefined
Truthy(v) == v # Undefined /\ v # ""

GetToken(storage) == storage

\* a store that keeps the token it has
SaveToken_ifAbsent(storage, token) ==
  IF storage = Undefined THEN ToDOMString(token) ELSE storage

SaveToken(storage, token) == ToDOMString(token)

DestroyToken(storage) == Undefined

(***************************************************************************)
(* UserService: the subject and the two public streams                     *)
(***************************************************************************)
\* the service with its store and its subscriber, as one value
Svc == [localStorage |-> localStorage, subject |-> currentUserSubject,
        observer |-> observer, directive |-> directive, control |-> control,
        comment |-> comment]

\* distinctUntilChanged() with the default comparator (===): an emission
\* passes unless it is the very value (object identity) emitted before
DistinctUntilChanged(prev, v) == prev # v

\* a derivation that looks at the token instead of the user
IsAuthenticatedMap_token(user) == user.token # Undefined

\* map((user) => !!user)
IsAuthenticatedMap(user) == user # Null

\* one emission of the subject reaching the subscriber: its subscription to
\* currentUser and its subscription to isAuthenticated each run their own
\* distinctUntilChanged; store is what the token store holds while the
\* subscriber's currentUser handler runs
Deliver(o, v, storage) ==
  [user    |-> IF DistinctUntilChanged(o.user, v) THEN v ELSE o.user,
   authKey |-> IF DistinctUntilChanged(o.authKey, v) THEN v ELSE o.authKey,
   auth    |-> IF DistinctUntilChanged(o.authKey, v)
               THEN IsAuthenticatedMap(v) ELSE o.auth,
   store   |-> IF DistinctUntilChanged(o.user, v) THEN storage ELSE o.store]

\* no directive attached; key is the value its subscription's
\* distinctUntilChanged saw last
NoDirective ==
  [alive |-> FALSE, condition |-> FALSE, hasView |-> FALSE, key |-> Null,
   detached |-> FALSE]

\* the target the directive tracks
ShouldShow(condition, isAuthenticated) ==
  (isAuthenticated /\ condition) \/ (~isAuthenticated /\ ~condition)

\* the subscriber of IfAuthenticatedDirective.ngOnInit: create the view when
\* it is wanted and absent, else clear it when there is one
IfAuthenticatedHandler(d, isAuthenticated) ==
  LET authRequired == isAuthenticated /\ d.condition
      unauthRequired == ~isAuthenticated /\ ~d.condition
  IN IF (authRequired \/ unauthRequired) /\ ~d.hasView
     THEN [d EXCEPT !.hasView = TRUE]
     ELSE IF d.hasView THEN [d EXCEPT !.hasView = FALSE]
     ELSE d

\* a subscription that outlives the directive
DeliverDirective_leaked(d, v) ==
  IF DistinctUntilChanged(d.key, v)
  THEN IfAuthenticatedHandler([d EXCEPT !.key = v], IsAuthenticatedMap(v))
  ELSE d

\* one emission of the subject reaching the directive's subscription to
\* isAuthenticated, while the directive is attached
DeliverDirective(d, v) ==
  IF d.alive /\ DistinctUntilChanged(d.key, v)
  THEN IfAuthenticatedHandler([d EXCEPT !.key = v], IsAuthenticatedMap(v))
  ELSE d

\* an interceptor that uses the Bearer scheme
TokenInterceptor_bearer(storage) ==
  IF Truthy(GetToken(storage)) THEN "Bearer " \o GetToken(storage)
  ELSE Undefined

\* tokenInterceptor: the Authorization header of an outgoing request,
\* ...(token ? { Authorization: `Token ${token}` } : {})
TokenInterceptor(storage) ==
  IF Truthy(GetToken(storage)) THEN "Token " \o GetToken(storage)
  ELSE Undefined

(***************************************************************************)
(* FavoriteButtonComponent and FollowButtonComponent: the subscription     *)
(* toggleFavorite() / toggleFollowing() makes of isAuthenticated           *)
(***************************************************************************)
NoRequest == [call |-> "", authorization |-> Undefined]

\* isSubmitting = false, no subscription
NoControl ==
  [alive |-> FALSE, kind |-> "", on |-> FALSE, isSubmitting |-> FALSE,
   subs |-> <<>>]

ControlKinds == {"favorite", "follow"}

\* the request the projection chooses from article.favorited or from
\* profile.following (the field on)
ControlCall(c) ==
  IF c.kind = "favorite"
  THEN (IF ~c.on THEN "favorite" ELSE "unfavorite")
  ELSE (IF ~c.on THEN "follow" ELSE "unfollow")

\* router.navigate(["/register"]) and router.navigate(["/login"])
RedirectOf(kind) == IF kind = "favorite" THEN "/register" ELSE "/login"

\* a projection that does not look at the value it is given
SwitchMapProject_noCheck(c, isAuthenticated, storage) ==
  [req |-> [call |-> ControlCall(c),
            authorization |-> TokenInterceptor(storage)],
   nav |-> ""]

\* the function given to switchMap: a redirect and EMPTY when the value is
\* false, the favorite/unfavorite (follow/unfollow) request otherwise
SwitchMapProject(c, isAuthenticated, storage) ==
  IF ~isAuthenticated
  THEN [req |-> NoRequest, nav |-> RedirectOf(c.kind)]
  ELSE [req |-> [call |-> ControlCall(c),
                 authorization |-> TokenInterceptor(storage)],
        nav |-> ""]

\* one emission of the subject reaching one subscription of the control:
\* switchMap drops the request of the emission before and projects again
DeliverSub(c, sub, v, storage) ==
  IF DistinctUntilChanged(sub.key, v)
  THEN [key |-> v,
        req |-> SwitchMapProject(c, IsAuthenticatedMap(v), storage).req,
        again |-> TRUE]
  ELSE sub

DeliverControl(c, v, storage) ==
  IF c.alive
  THEN [c EXCEPT !.subs =
          [i \in DOMAIN c.subs |-> DeliverSub(c, c.subs[i], v, storage)]]
  ELSE c

\* the sequence without its i-th element
RemoveAt(seq, i) ==
  [j \in 1..(Len(seq) - 1) |-> IF j < i THEN seq[j] ELSE seq[j + 1]]

\* what the control emits on success: the favorite button the negation of
\* article.favorited, the follow button the profile of the response
ToggleValue(c, call) ==
  IF c.kind = "favorite" THEN ~c.on ELSE [following |-> (call = "follow")]

\* the parent's handler of the toggle event updates the article (profile)
\* it passed to the control
ParentUpdate(c, value) ==
  IF c.kind = "favorite" THEN value ELSE value.following

\* an error handler that leaves the control busy
ControlErrorHandler_busy(c, i) == [c EXCEPT !.subs = RemoveAt(@, i)]

\* error: () => (this.isSubmitting = false); the subscription has ended
ControlErrorHandler(c, i) ==
  [c EXCEPT !.isSubmitting = FALSE, !.subs = RemoveAt(@, i)]

\* next: isSubmitting = false, toggle.emit(value); the request is complete
ControlNextHandler(c, i, value) ==
  [c EXCEPT !.isSubmitting = FALSE, !.on = ParentUpdate(c, value),
            !.subs[i].req = NoRequest]

\* ArticleCommentComponent: canModify$ | async
\* the authors of the comments rendered
Authors == Usernames

\* no comment rendered; key is the value the distinctUntilChanged of its
\* subscription to currentUser saw last
NoComment == [alive |-> FALSE, author |-> "", key |-> Null, canModify |-> FALSE]

\* a comparison that takes any logged-in user for the author
CanModify_anyUser(userData, author) == userData # Null

\* userData?.username === this.comment.author.username
CanModify(userData, author) ==
  (IF userData = Null THEN Undefined ELSE userData.username) = author

\* one emission of the subject reaching canModify$ | async
DeliverComment(c, v) ==
  IF c.alive /\ DistinctUntilChanged(c.key, v)
    THEN [c EXCEPT !.key = v, !.canModify = CanModify(v, c.author)]
    ELSE c

\* currentUserSubject.next(v): store the value, then notify the subscribers
SubjectNext(s, v) ==
  [s EXCEPT !.subject = v, !.observer = Deliver(s.observer, v, s.localStorage),
            !.directive = DeliverDirective(s.directive, v),
            !.control = DeliverControl(s.control, v, s.localStorage),
            !.comment = DeliverComment(s.comment, v)]

\* a stream that first replays an initial null and then the present value
SubscribeCurrentUser_nullFlash(s) == <<Null, s.subject>>

\* what a new subscriber of currentUser receives when it subscribes: the
\* BehaviorSubject replays its value, which distinctUntilChanged lets pass as
\* the first value of the subscription
SubscribeCurrentUser(s) == <<s.subject>>

\* a setAuth that forgets the token store
SetAuth_noSave(s, user) == SubjectNext(s, user)

\* a setAuth that notifies the subscribers before it saves the token
SetAuth_emitFirst(s, user) ==
  [SubjectNext(s, user) EXCEPT
     !.localStorage = SaveToken(s.localStorage, user.token)]

SetAuth(s, user) ==
  SubjectNext([s EXCEPT !.localStorage = SaveToken(s.localStorage, user.token)],
              user)

\* a purgeAuth that forgets the token store
PurgeAuth_noDestroy(s) == SubjectNext(s, Null)

PurgeAuth(s) ==
  SubjectNext([s EXCEPT !.localStorage = DestroyToken(s.localStorage)], Null)

\* the object a response body is parsed into: a new object on every response,
\* identical (===) to no object the application still holds
FreshRef == CHOOSE r \in Refs : r # currentUserSubject.ref /\ r # observer.user.ref

Parse(u) == [ref |-> FreshRef, username |-> u.username, token |-> u.token]

(***************************************************************************)
(* Interceptors                                                            *)
(***************************************************************************)
\* an interceptor that rethrows a message of its own instead of the body
ErrorInterceptor_message(err) == "Http failure response"

\* errorInterceptor: catchError((err) => throwError(() => err.error))
ErrorInterceptor(err) == err.error

NoError == [status |-> 200, error |-> Undefined]

(***************************************************************************)
(* The request pipelines of UserService                                    *)
(* each gives the state the subscriber's handler runs in (atNext) and the  *)
(* state when the turn ends (final)                                        *)
(***************************************************************************)
\* a pipeline whose side effect runs after the subscriber's handler
LoginPipe_late(s, user) == [atNext |-> s, final |-> SetAuth(s, user)]

\* login and register: http.post(...).pipe(tap(({ user }) => setAuth(user)))
LoginPipe(s, user) ==
  LET s1 == SetAuth(s, user) IN [atNext |-> s1, final |-> s1]

\* an error branch that leaves the session alone
GetCurrentUserError_keep(s) == s

\* a next branch that sets the user and leaves the token store alone
GetCurrentUserNext_noSave(s, user) == SubjectNext(s, user)

\* getCurrentUser: tap({ next: setAuth, error: purgeAuth }), shareReplay(1)
GetCurrentUserNext(s, user) == SetAuth(s, user)

GetCurrentUserError(s) == PurgeAuth(s)

\* update: tap(({ user }) => currentUserSubject.next(user))
UpdateNext(s, user) == SubjectNext(s, user)

(***************************************************************************)
(* HTTP requests in flight                                                 *)
(***************************************************************************)
\* pending is a bag: requests that do not differ are numbered 1, 2, ...
Alike(call, authorization) ==
  {r \in pending : r.call = call /\ r.authorization = authorization}

\* the request a call sends: the interceptor chain adds the header
Request(call) ==
  LET authorization == TokenInterceptor(localStorage)
  IN [call |-> call, authorization |-> authorization,
      n |-> Cardinality(Alike(call, authorization)) + 1]

CanSend == Cardinality(pending) < MaxInFlight

\* one of the requests in flight, taken as the representative of those alike
Answered(r) ==
  /\ r \in pending
  /\ r.n = Cardinality(Alike(r.call, r.authorization))

\* the server answers GET /user and PUT /user with a user only to a request
\* that carried a token
MayAccept(r) ==
  r.call \in {"login", "register"} \/ r.authorization # Undefined

(***************************************************************************)
(* ArticleListComponent                                                    *)
(***************************************************************************)
\* the values the parent binds to [config]; Undefined while it has none
Configs == {"all", "feed"}
Limits == 0..MaxLimit
Counts == 0..MaxCount

\* results = []
NoResults == <<>>

\* the fields as the class initialises them: loading = NOT_LOADED,
\* currentPage = 1, results = [], totalPages = []; queries are the requests
\* of articlesService.query in flight, issued counts the queries issued and
\* shown is the number of the query whose response was handled last
NoList ==
  [alive |-> FALSE, limit |-> 0, query |-> Undefined, currentPage |-> 1,
   results |-> NoResults, totalPages |-> <<>>, loading |-> "NOT_LOADED",
   queries |-> {}, issued |-> 0, shown |-> 0]

\* an offset that counts pages from 0
Offset_fromZero(limit, currentPage) == limit * currentPage

\* this.limit * (this.currentPage - 1)
Offset(limit, currentPage) == limit * (currentPage - 1)

\* the filters of the query runQuery sends: if (this.limit) sets limit and
\* offset, otherwise the configuration's filters go out as they are
Filters(a) ==
  IF a.limit # 0
    THEN [limit |-> a.limit, offset |-> Offset(a.limit, a.currentPage)]
    ELSE [limit |-> Undefined, offset |-> Undefined]

\* runQuery(): loading = LOADING, results = [], the filters, then
\* articlesService.query(this.query).pipe(takeUntilDestroyed).subscribe(next)
RunQuery(a) ==
  [a EXCEPT !.loading = "LOADING", !.results = NoResults,
            !.issued = @ + 1,
            !.queries = @ \cup {[n |-> a.issued + 1, config |-> a.query,
                                  filters |-> Filters(a)]}]

\* Math.ceil(articlesCount / limit) for a positive limit
Ceil(c, limit) == IF c % limit = 0 THEN c \div limit ELSE c \div limit + 1

\* Array.from(new Array(k), (val, index) => index + 1)
PageNumbers(k) == [i \in 1..k |-> i]

\* the page of articles the server returns for a query
Articles(q) == [config |-> q.config, filters |-> q.filters]

\* the subscriber's next: loading = LOADED, results = data.articles,
\* totalPages = [1 .. ceil(articlesCount / limit)]; with limit 0 the
\* division gives NaN or Infinity, new Array throws a RangeError and
\* totalPages keeps its value
QueryNext(a, q, c) ==
  [a EXCEPT !.loading = "LOADED", !.results = Articles(q),
            !.totalPages = IF a.limit = 0 THEN @
                           ELSE PageNumbers(Ceil(c, a.limit)),
            !.queries = @ \ {q}, !.shown = q.n]

\* the subscription has no error callback: a failed query ends it and
\* changes no field
QueryError(a, q) == [a EXCEPT !.queries = @ \ {q}]

(***************************************************************************)
(* Initial state                                                           *)
(***************************************************************************)
\* errors: Errors = { errors: {} }
EmptyErrors == "errors: {}"

NoAuthComponent ==
  [alive |-> FALSE, authType |-> "", isSubmitting |-> FALSE,
   errors |-> EmptyErrors]

NoOp ==
  [kind |-> "init", call |-> "", user |-> Null, httpError |-> NoError,
   delivered |-> Undefined, preUser |-> Null, preToken |-> Undefined,
   sawUser |-> Null, sawToken |-> Undefined, nav |-> "", issued |-> 0,
   activated |-> FALSE, initial |-> FALSE, emitted |-> <<>>,
   header |-> Undefined, preOn |-> FALSE, retry |-> FALSE,
   page |-> 0, answered |-> 0, count |-> 0, preLoading |-> "NOT_LOADED"]

\* a page load: the token of an earlier visit may be in localStorage
Init ==
  /\ localStorage \in Tokens \cup {Undefined}
  /\ currentUserSubject = Null
  /\ observer = [user |-> Null, authKey |-> Null,
                 auth |-> IsAuthenticatedMap(Null), store |-> localStorage]
  /\ directive = NoDirective
  /\ control = NoControl
  /\ calls = <<>>
  /\ pending = {}
  /\ phase = "boot"
  /\ authComponent = NoAuthComponent
  /\ articleList = NoList
  /\ comment = NoComment
  /\ lastOp = NoOp

\* assign the service's part of the state
SetSvc(s) ==
  /\ localStorage' = s.localStorage
  /\ currentUserSubject' = s.subject
  /\ observer' = s.observer
  /\ directive' = s.directive
  /\ control' = s.control
  /\ comment' = s.comment

\* the history record of a turn
Op(kind, call) ==
  [NoOp EXCEPT !.kind = kind, !.call = call,
               !.preUser = currentUserSubject, !.preToken = localStorage,
               !.preOn = control.on, !.preLoading = articleList.loading]

(***************************************************************************)
(* Startup: the APP_INITIALIZER                                            *)
(***************************************************************************)
\* an initializer that subscribes on its own and returns nothing to wait for
InitAuth_notAwaited ==
  /\ phase = "boot"
  /\ pending' = IF Truthy(GetToken(localStorage))
                THEN pending \cup {Request("getCurrentUser")} ELSE pending
  /\ phase' = "starting"
  /\ lastOp' = Op("initAuth", "initAuth")
  /\ UNCHANGED <<articleList, comment, calls, localStorage, currentUserSubject, observer, directive, control, authComponent>>

\* () => (jwtService.getToken() ? userService.getCurrentUser() : EMPTY)
\* EMPTY completes at once and the application starts (its first navigation
\* follows); otherwise the application waits for the request
InitAuth ==
  /\ phase = "boot"
  /\ IF Truthy(GetToken(localStorage))
     THEN /\ pending' = pending \cup {Request("initAuth")}
          /\ phase' = "initializing"
          /\ lastOp' = [Op("initAuth", "initAuth") EXCEPT !.issued = 1,
                  !.header = Request("initAuth").authorization]
     ELSE /\ pending' = pending
          /\ phase' = "starting"
          /\ lastOp' = Op("initAuth", "initAuth")
  /\ UNCHANGED <<articleList, comment, calls, localStorage, currentUserSubject, observer, directive, control, authComponent>>

(***************************************************************************)
(* UserService calls made while the application runs                       *)
(***************************************************************************)
\* getCurrentUser() called and subscribed by a part of the application
GetCurrentUser ==
  /\ phase = "ready"
  /\ CanSend
  /\ pending' = pending \cup {Request("getCurrentUser")}
  /\ lastOp' = [Op("getCurrentUser", "getCurrentUser") EXCEPT !.issued = 1,
                  !.header = Request("getCurrentUser").authorization]
  /\ UNCHANGED <<articleList, comment, calls, localStorage, currentUserSubject, observer, directive, control, phase, authComponent>>

\* update(user) called and subscribed by a part of the application
Update ==
  /\ phase = "ready"
  /\ CanSend
  /\ pending' = pending \cup {Request("update")}
  /\ lastOp' = [Op("update", "update") EXCEPT !.issued = 1,
                  !.header = Request("update").authorization]
  /\ UNCHANGED <<articleList, comment, calls, localStorage, currentUserSubject, observer, directive, control, phase, authComponent>>

\* logout(): purgeAuth(), then router.navigate(["/"])
Logout ==
  /\ phase = "ready"
  /\ SetSvc(PurgeAuth(Svc))
  /\ lastOp' = [Op("logout", "logout") EXCEPT !.nav = "/"]
  /\ UNCHANGED <<articleList, calls, pending, phase, authComponent>>

\* a part of the application subscribes to currentUser
Subscribe ==
  /\ phase = "ready"
  /\ lastOp' = [Op("subscribe", "currentUser") EXCEPT
                  !.emitted = SubscribeCurrentUser(Svc)]
  /\ UNCHANGED <<articleList, comment, calls, localStorage, currentUserSubject, observer, directive, control, pending, phase,
                 authComponent>>

(***************************************************************************)
(* Responses to GET /user and PUT /user                                    *)
(***************************************************************************)
\* the initializer's observable completes: the application starts;
\* it fails: bootstrapApplication rejects and only console.error runs
GetCurrentUserSuccess(r, u) ==
  /\ Answered(r)
  /\ r.call \in {"initAuth", "getCurrentUser"}
  /\ MayAccept(r)
  /\ LET user == Parse(u)
         s1 == GetCurrentUserNext(Svc, user)
     IN /\ SetSvc(s1)
        /\ lastOp' = [Op("getCurrentUserSuccess", r.call) EXCEPT
                        !.user = user, !.sawUser = s1.subject,
                        !.sawToken = s1.localStorage]
  /\ pending' = pending \ {r}
  /\ phase' = IF r.call = "initAuth" THEN "starting" ELSE phase
  /\ UNCHANGED <<articleList, calls, authComponent>>

GetCurrentUserFailure(r, err) ==
  /\ Answered(r)
  /\ r.call \in {"initAuth", "getCurrentUser"}
  /\ LET s1 == GetCurrentUserError(Svc)
     IN /\ SetSvc(s1)
        /\ lastOp' = [Op("getCurrentUserFailure", r.call) EXCEPT
                        !.httpError = err,
                        !.delivered = ErrorInterceptor(err),
                        !.sawUser = s1.subject,
                        !.sawToken = s1.localStorage]
  /\ pending' = pending \ {r}
  /\ phase' = IF r.call = "initAuth" THEN "failed" ELSE phase
  /\ UNCHANGED <<articleList, calls, authComponent>>

UpdateSuccess(r, u) ==
  /\ Answered(r)
  /\ r.call = "update"
  /\ MayAccept(r)
  /\ LET user == Parse(u)
         s1 == UpdateNext(Svc, user)
     IN /\ SetSvc(s1)
        /\ lastOp' = [Op("updateSuccess", r.call) EXCEPT
                        !.user = user, !.sawUser = s1.subject,
                        !.sawToken = s1.localStorage]
  /\ pending' = pending \ {r}
  /\ UNCHANGED <<articleList, calls, phase, authComponent>>

UpdateFailure(r, err) ==
  /\ Answered(r)
  /\ r.call = "update"
  /\ lastOp' = [Op("updateFailure", r.call) EXCEPT
                  !.httpError = err, !.delivered = ErrorInterceptor(err),
                  !.sawUser = currentUserSubject, !.sawToken = localStorage]
  /\ pending' = pending \ {r}
  /\ UNCHANGED <<articleList, comment, calls, localStorage, currentUserSubject, observer, directive, control, phase, authComponent>>

(***************************************************************************)
(* AuthComponent (the /login and /register pages)                          *)
(***************************************************************************)
\* the routes of the application (profile, whose child routes are loaded
\* from another file, is left out)
GuestRoutes == {"login", "register"}

ProtectedRoutes == {"settings", "editor", "editor/:slug"}

OpenRoutes == {"", "article/:slug"}

Routes == GuestRoutes \cup ProtectedRoutes \cup OpenRoutes

\* a guest-only guard without the negation
GuestOnlyGuard_noNegation(s) == IsAuthenticatedMap(s.subject)

\* canActivate of /login and /register: isAuthenticated.pipe(map(a => !a)),
\* of which the router takes the first value
GuestOnlyGuard(s) == ~IsAuthenticatedMap(s.subject)

\* a guard that lets everybody in
AuthRequiredGuard_open(s) == TRUE

\* canActivate of /settings and /editor: isAuthenticated itself
AuthRequiredGuard(s) == IsAuthenticatedMap(s.subject)

\* the outcome of the canActivate guards of a route; no guard lets pass
CanActivate(route, s) ==
  IF route \in GuestRoutes THEN GuestOnlyGuard(s)
  ELSE IF route \in ProtectedRoutes THEN AuthRequiredGuard(s)
  ELSE TRUE

\* the component of /login or /register after constructor and ngOnInit
OpenAuth(authType) ==
  [NoAuthComponent EXCEPT !.alive = TRUE, !.authType = authType]

\* the requests left when the AuthComponent is destroyed: takeUntilDestroyed
\* unsubscribes, which aborts the component's request
AbortAuthRequests == {r \in pending : r.call \notin {"login", "register"}}

\* a navigation: the guards of the route run and, when they pass, the route
\* is activated and the component of the route left is destroyed. The first
\* navigation is the one the router starts once the initializers are done
Navigate(route) ==
  /\ phase \in {"starting", "ready"}
  /\ ~(authComponent.alive /\ authComponent.authType = route)
  /\ LET ok == CanActivate(route, Svc)
     IN /\ authComponent' = IF ok /\ route \in GuestRoutes THEN OpenAuth(route)
                            ELSE IF ok THEN NoAuthComponent
                            ELSE authComponent
        /\ pending' = IF ok /\ authComponent.alive THEN AbortAuthRequests
                      ELSE pending
        /\ lastOp' = [Op("navigate", route) EXCEPT
                        !.activated = ok, !.initial = (phase = "starting")]
  /\ phase' = "ready"
  /\ UNCHANGED <<articleList, comment, calls, localStorage, currentUserSubject, observer, directive, control>>

SubmitForm ==
  /\ phase = "ready"
  /\ authComponent.alive
  /\ CanSend
  /\ pending' = pending \cup {Request(authComponent.authType)}
  /\ authComponent' = [authComponent EXCEPT !.isSubmitting = TRUE,
                                            !.errors = EmptyErrors]
  /\ lastOp' = [Op("submitForm", authComponent.authType) EXCEPT !.issued = 1,
                  !.header = Request(authComponent.authType).authorization]
  /\ UNCHANGED <<articleList, comment, calls, localStorage, currentUserSubject, observer, directive, control, phase>>

\* the response of login or register: the tap, then the component's
\* next: () => void this.router.navigate(["/"])
LoginSuccess(r, u) ==
  /\ Answered(r)
  /\ r.call \in {"login", "register"}
  /\ LET user == Parse(u)
         p == LoginPipe(Svc, user)
     IN /\ SetSvc(p.final)
        /\ lastOp' = [Op("loginSuccess", r.call) EXCEPT
                        !.user = user, !.sawUser = p.atNext.subject,
                        !.sawToken = p.atNext.localStorage, !.nav = "/"]
  /\ pending' = pending \ {r}
  /\ UNCHANGED <<articleList, calls, phase, authComponent>>

\* error: (err) => { this.errors = err; this.isSubmitting = false; }
LoginFailure(r, err) ==
  /\ Answered(r)
  /\ r.call \in {"login", "register"}
  /\ authComponent' = [authComponent EXCEPT
                         !.errors = ErrorInterceptor(err),
                         !.isSubmitting = FALSE]
  /\ lastOp' = [Op("loginFailure", r.call) EXCEPT
                  !.httpError = err, !.delivered = ErrorInterceptor(err),
                  !.sawUser = currentUserSubject, !.sawToken = localStorage]
  /\ pending' = pending \ {r}
  /\ UNCHANGED <<articleList, comment, calls, localStorage, currentUserSubject, observer, directive, control, phase>>

\* an auth form that removes the stored token when it is left
DestroyAuth_dropsToken ==
  /\ authComponent.alive
  /\ authComponent' = NoAuthComponent
  /\ pending' = AbortAuthRequests
  /\ localStorage' = DestroyToken(localStorage)
  /\ lastOp' = Op("destroyAuth", authComponent.authType)
  /\ UNCHANGED <<articleList, comment, calls, currentUserSubject, observer, directive, control, phase>>

\* the page is left for a route outside this model (a profile page)
DestroyAuth ==
  /\ authComponent.alive
  /\ authComponent' = NoAuthComponent
  /\ pending' = AbortAuthRequests
  /\ lastOp' = Op("destroyAuth", authComponent.authType)
  /\ UNCHANGED <<articleList, comment, calls, localStorage, currentUserSubject, observer, directive, control, phase>>

(***************************************************************************)
(* IfAuthenticatedDirective                                                *)
(***************************************************************************)
\* a template with *ifAuthenticated="condition" is rendered: the input is
\* set, then ngOnInit subscribes and the subscriber runs on the present value
NgOnInit(condition) ==
  /\ phase \in {"starting", "ready"}
  /\ ~directive.alive
  /\ directive' =
       IfAuthenticatedHandler(
         [NoDirective EXCEPT !.alive = TRUE, !.condition = condition,
                             !.key = currentUserSubject],
         IsAuthenticatedMap(currentUserSubject))
  /\ lastOp' = Op("ngOnInit", "ifAuthenticated")
  /\ UNCHANGED <<articleList, comment, calls, localStorage, currentUserSubject, observer, control,
                 pending, phase, authComponent>>

\* the directive is destroyed: takeUntilDestroyed ends its subscription
DestroyDirective ==
  /\ directive.alive
  /\ directive' = [NoDirective EXCEPT !.detached = TRUE]
  /\ lastOp' = Op("destroyDirective", "ifAuthenticated")
  /\ UNCHANGED <<articleList, comment, calls, localStorage, currentUserSubject, observer, control,
                 pending, phase, authComponent>>

(***************************************************************************)
(* FavoriteButtonComponent and FollowButtonComponent                       *)
(***************************************************************************)
\* a page that holds the control is rendered with an article (a profile)
RenderControl(kind, on) ==
  /\ phase = "ready"
  /\ ~authComponent.alive
  /\ ~control.alive
  /\ control' = [NoControl EXCEPT !.alive = TRUE, !.kind = kind, !.on = on]
  /\ lastOp' = Op("render", kind)
  /\ UNCHANGED <<articleList, comment, calls, localStorage, currentUserSubject, observer, directive,
                 pending, phase, authComponent>>

\* toggleFavorite() / toggleFollowing(): the click handler; the subscription
\* gets the present value of isAuthenticated at once
ToggleControl ==
  /\ control.alive
  /\ Len(control.subs) < MaxActivations
  /\ LET p == SwitchMapProject(control, IsAuthenticatedMap(currentUserSubject),
                               localStorage)
     IN /\ control' =
             [control EXCEPT !.isSubmitting = TRUE,
                             !.subs = Append(@, [key |-> currentUserSubject,
                                                 req |-> p.req,
                                                 again |-> FALSE])]
        /\ lastOp' = [Op("toggle", control.kind) EXCEPT
                        !.nav = p.nav,
                        !.issued = IF p.req = NoRequest THEN 0 ELSE 1,
                        !.header = p.req.authorization,
                        !.retry = (lastOp.kind = "controlFailure")]
  /\ UNCHANGED <<articleList, comment, calls, localStorage, currentUserSubject, observer, directive,
                 pending, phase, authComponent>>

\* the server confirms the request of the i-th subscription
ControlSuccess(i) ==
  /\ control.alive
  /\ i \in DOMAIN control.subs
  /\ control.subs[i].req # NoRequest
  /\ LET call == control.subs[i].req.call
         value == ToggleValue(control, call)
     IN /\ control' = ControlNextHandler(control, i, value)
        /\ lastOp' = [Op("controlSuccess", call) EXCEPT !.emitted = <<value>>]
  /\ UNCHANGED <<articleList, comment, calls, localStorage, currentUserSubject, observer, directive,
                 pending, phase, authComponent>>

\* the request of the i-th subscription fails
ControlFailure(i, err) ==
  /\ control.alive
  /\ i \in DOMAIN control.subs
  /\ control.subs[i].req # NoRequest
  /\ control' = ControlErrorHandler(control, i)
  /\ lastOp' = [Op("controlFailure", control.subs[i].req.call) EXCEPT
                  !.httpError = err]
  /\ UNCHANGED <<articleList, comment, calls, localStorage, currentUserSubject, observer, directive,
                 pending, phase, authComponent>>

\* the control is destroyed: takeUntilDestroyed ends its subscriptions
DestroyControl ==
  /\ control.alive
  /\ control' = NoControl
  /\ lastOp' = Op("destroyControl", control.kind)
  /\ UNCHANGED <<articleList, comment, calls, localStorage, currentUserSubject, observer, directive,
                 pending, phase, authComponent>>

Next ==
  \/ InitAuth
  \/ GetCurrentUser
  \/ Update
  \/ Logout
  \/ Subscribe
  \/ \E r \in pending, u \in IssuedUsers : GetCurrentUserSuccess(r, u)
  \/ \E r \in pending, err \in ErrorResponses : GetCurrentUserFailure(r, err)
  \/ \E r \in pending, u \in UpdatedUsers : UpdateSuccess(r, u)
  \/ \E r \in pending, err \in ErrorResponses : UpdateFailure(r, err)
  \/ \E route \in Routes : Navigate(route)
  \/ SubmitForm
  \/ \E r \in pending, u \in IssuedUsers : LoginSuccess(r, u)
  \/ \E r \in pending, err \in ErrorResponses : LoginFailure(r, err)
  \/ DestroyAuth

Spec == Init /\ [][Next]_vars

\* the application with a template that uses the directive
ViewNext ==
  \/ Next
  \/ \E condition \in BOOLEAN : NgOnInit(condition)
  \/ DestroyDirective

ViewSpec == Init /\ [][ViewNext]_vars

\* a page with a favorite or follow button: the session is restored at
\* startup and refreshed by getCurrentUser while the page is shown
ControlNext ==
  \/ InitAuth
  \/ GetCurrentUser
  \/ \E r \in pending, u \in IssuedUsers : GetCurrentUserSuccess(r, u)
  \/ \E r \in pending, err \in ErrorResponses : GetCurrentUserFailure(r, err)
  \/ \E route \in OpenRoutes : Navigate(route)
  \/ \E kind \in ControlKinds, on \in BOOLEAN : RenderControl(kind, on)
  \/ ToggleControl
  \/ \E i \in 1..MaxActivations : ControlSuccess(i)
  \/ \E i \in 1..MaxActivations, err \in ErrorResponses : ControlFailure(i, err)
  \/ DestroyControl

ControlSpec == Init /\ [][ControlNext]_vars

(***************************************************************************)
(* JwtService called on its own                                            *)
(***************************************************************************)
JwtCall(op, token) == [op |-> op, token |-> token]

\* saveToken(token)
JwtSaveToken(token) ==
  /\ Len(calls) < MaxCalls
  /\ localStorage' = SaveToken(localStorage, token)
  /\ calls' = Append(calls, JwtCall("saveToken", token))
  /\ lastOp' = Op("saveToken", "JwtService")
  /\ UNCHANGED <<articleList, comment, currentUserSubject, observer, directive, control, pending,
                 phase, authComponent>>

\* destroyToken()
JwtDestroyToken ==
  /\ Len(calls) < MaxCalls
  /\ localStorage' = DestroyToken(localStorage)
  /\ calls' = Append(calls, JwtCall("destroyToken", Undefined))
  /\ lastOp' = Op("destroyToken", "JwtService")
  /\ UNCHANGED <<articleList, comment, currentUserSubject, observer, directive, control, pending,
                 phase, authComponent>>

\* getToken(): the log keeps what it returned
JwtGetToken ==
  /\ Len(calls) < MaxCalls
  /\ calls' = Append(calls, JwtCall("getToken", GetToken(localStorage)))
  /\ lastOp' = Op("getToken", "JwtService")
  /\ UNCHANGED <<articleList, comment, localStorage, currentUserSubject, observer, directive,
                 control, pending, phase, authComponent>>

TokenStoreNext ==
  \/ \E token \in Tokens : JwtSaveToken(token)
  \/ JwtDestroyToken
  \/ JwtGetToken

TokenStoreSpec == Init /\ [][TokenStoreNext]_vars

(***************************************************************************)
(* ArticleListComponent: the parent's bindings, the pagination buttons and *)
(* the responses of articlesService.query                                  *)
(***************************************************************************)
\* the parent's template creates the list and binds [limit]
RenderList(limit) ==
  /\ ~articleList.alive
  /\ articleList' = [NoList EXCEPT !.alive = TRUE, !.limit = limit]
  /\ lastOp' = Op("renderList", "articleList")
  /\ UNCHANGED <<comment, calls, localStorage, currentUserSubject, observer,
                 directive, control, pending, phase, authComponent>>

\* set config(config): if (config) { query = config; currentPage = 1;
\* runQuery() }
SetConfig(config) ==
  /\ articleList.alive
  /\ articleList.issued < MaxQueries
  /\ articleList' =
       IF config # Undefined
         THEN RunQuery([articleList EXCEPT !.query = config, !.currentPage = 1])
         ELSE articleList
  /\ lastOp' = [Op("config", config) EXCEPT
                  !.issued = IF config # Undefined THEN 1 ELSE 0]
  /\ UNCHANGED <<comment, calls, localStorage, currentUserSubject, observer,
                 directive, control, pending, phase, authComponent>>

\* a click on a page button, which the template renders for the numbers
\* of totalPages while loading is LOADED: currentPage = pageNumber; runQuery()
SetPageTo(pageNumber) ==
  /\ articleList.alive
  /\ articleList.issued < MaxQueries
  /\ articleList.loading = "LOADED"
  /\ pageNumber \in DOMAIN articleList.totalPages
  /\ articleList' =
       RunQuery([articleList EXCEPT
                   !.currentPage = articleList.totalPages[pageNumber]])
  /\ lastOp' = [Op("setPageTo", "articleList") EXCEPT
                  !.issued = 1, !.page = articleList.totalPages[pageNumber]]
  /\ UNCHANGED <<comment, calls, localStorage, currentUserSubject, observer,
                 directive, control, pending, phase, authComponent>>

\* the response of a query: { articles, articlesCount }
QuerySuccess(q, c) ==
  /\ q \in articleList.queries
  /\ articleList' = QueryNext(articleList, q, c)
  /\ lastOp' = [Op("querySuccess", q.config) EXCEPT
                  !.answered = q.n, !.count = c]
  /\ UNCHANGED <<comment, calls, localStorage, currentUserSubject, observer,
                 directive, control, pending, phase, authComponent>>

\* a query fails
QueryFailure(q, err) ==
  /\ q \in articleList.queries
  /\ articleList' = QueryError(articleList, q)
  /\ lastOp' = [Op("queryFailure", q.config) EXCEPT
                  !.answered = q.n, !.httpError = err,
                  !.delivered = ErrorInterceptor(err)]
  /\ UNCHANGED <<comment, calls, localStorage, currentUserSubject, observer,
                 directive, control, pending, phase, authComponent>>

\* the list is destroyed: takeUntilDestroyed ends its subscriptions
DestroyList ==
  /\ articleList.alive
  /\ articleList' = NoList
  /\ lastOp' = Op("destroyList", "articleList")
  /\ UNCHANGED <<comment, calls, localStorage, currentUserSubject, observer,
                 directive, control, pending, phase, authComponent>>

\* a page with an article list
ListNext ==
  \/ \E limit \in Limits : RenderList(limit)
  \/ \E config \in Configs \cup {Undefined} : SetConfig(config)
  \/ \E pageNumber \in 1..MaxCount : SetPageTo(pageNumber)
  \/ \E q \in articleList.queries, c \in Counts : QuerySuccess(q, c)
  \/ \E q \in articleList.queries, err \in ErrorResponses : QueryFailure(q, err)
  \/ DestroyList

ListSpec == Init /\ [][ListNext]_vars

(***************************************************************************)
(* ArticleCommentComponent                                                 *)
(***************************************************************************)
\* the article page renders a comment: canModify$ | async subscribes and
\* receives the subject's value
RenderComment(author) ==
  /\ phase = "ready"
  /\ ~comment.alive
  /\ LET v == SubscribeCurrentUser(Svc)[1]
     IN comment' = [alive |-> TRUE, author |-> author, key |-> v,
                    canModify |-> CanModify(v, author)]
  /\ lastOp' = Op("renderComment", author)
  /\ UNCHANGED <<articleList, calls, localStorage, currentUserSubject, observer,
                 directive, control, pending, phase, authComponent>>

\* the comment is destroyed: the async pipe unsubscribes
DestroyComment ==
  /\ comment.alive
  /\ comment' = NoComment
  /\ lastOp' = Op("destroyComment", comment.author)
  /\ UNCHANGED <<articleList, calls, localStorage, currentUserSubject, observer,
                 directive, control, pending, phase, authComponent>>

\* the application with an article page that shows a comment
CommentNext ==
  \/ InitAuth
  \/ Logout
  \/ \E r \in pending, u \in IssuedUsers : GetCurrentUserSuccess(r, u)
  \/ \E r \in pending, err \in ErrorResponses : GetCurrentUserFailure(r, err)
  \/ \E route \in Routes : Navigate(route)
  \/ SubmitForm
  \/ \E r \in pending, u \in IssuedUsers : LoginSuccess(r, u)
  \/ \E r \in pending, err \in ErrorResponses : LoginFailure(r, err)
  \/ DestroyAuth
  \/ \E author \in Authors : RenderComment(author)
  \/ DestroyComment

CommentSpec == Init /\ [][CommentNext]_vars

(***************************************************************************)
(* Properties                                                              *)
(***************************************************************************)
Authenticated == currentUserSubject # Null

\* C1: in every state the value delivered by isAuthenticated equals
\* (currentUser != null), for the subject's value and for the value the
\* subscriber received from currentUser
C1_SignalConsistency ==
  /\ observer.auth = (currentUserSubject # Null)
  /\ observer.auth = (observer.user # Null)

\* an update response that carries no token has authenticated the session
C1_Witness ==
  /\ lastOp.kind = "updateSuccess"
  /\ lastOp.user.token = Undefined
  /\ observer.auth

\* C2: at every turn boundary the token store agrees with the session: when
\* the session is Authenticated(u) the store holds exactly u's token, and
\* after a transition to Anonymous the store holds no token
C2_StoreAgreesWithSession ==
  /\ Authenticated => localStorage = currentUserSubject.token
  /\ (lastOp.preUser # Null /\ ~Authenticated) => localStorage = Undefined

\* C3: right after a successful login or register response carrying u the
\* session is Authenticated(u) and the token store holds exactly u.token
C3_LoginSetsSessionAndToken ==
  lastOp.kind = "loginSuccess" =>
    /\ currentUserSubject = lastOp.user
    /\ localStorage = lastOp.user.token

\* a login succeeded over a session and a stored token of another login
C3_Witness ==
  /\ lastOp.kind = "loginSuccess"
  /\ lastOp.preUser # Null
  /\ lastOp.preToken \in Tokens \ {lastOp.user.token}

\* C4: when the caller's success handler of login or register runs (the
\* AuthComponent navigating to "/"), the session already holds the returned
\* user and the token store already holds that user's token
C4_SideEffectBeforeDelivery ==
  (lastOp.kind = "loginSuccess" /\ lastOp.nav = "/") =>
    /\ lastOp.sawUser = lastOp.user
    /\ lastOp.sawToken = lastOp.user.token

\* the handler of a register response ran on a session that was Anonymous
\* with an empty store before the response
C4_Witness ==
  /\ lastOp.kind = "loginSuccess"
  /\ lastOp.call = "register"
  /\ lastOp.nav = "/"
  /\ lastOp.preUser = Null
  /\ lastOp.preToken = Undefined
  /\ lastOp.sawUser # Null

\* C5: a logout() step leaves the session Anonymous and the token store
\* empty, asks the router for "/" and changes nothing of the requests in
\* flight
C5_LogoutIsSynchronousAndLocal ==
  [][lastOp'.kind = "logout" =>
       /\ currentUserSubject' = Null
       /\ localStorage' = Undefined
       /\ ~observer'.auth
       /\ lastOp'.nav = "/"
       /\ lastOp'.issued = 0
       /\ pending' = pending]_vars

\* logout was called on an authenticated session while a request was in flight
C5_Witness ==
  /\ lastOp.kind = "logout"
  /\ lastOp.preUser # Null
  /\ lastOp.preToken # Undefined
  /\ pending # {}

\* C6: a failed getCurrentUser leaves the session Anonymous and the token
\* store empty and still delivers the failure (the error body) to the
\* caller; a successful one leaves the session Authenticated(u)
C6_GetCurrentUserOutcome ==
  /\ lastOp.kind = "getCurrentUserFailure" =>
       /\ currentUserSubject = Null
       /\ localStorage = Undefined
       /\ lastOp.delivered = lastOp.httpError.error
  /\ lastOp.kind = "getCurrentUserSuccess" =>
       currentUserSubject = lastOp.user

\* a getCurrentUser failed while the session was authenticated
C6_Witness ==
  /\ lastOp.kind = "getCurrentUserFailure"
  /\ lastOp.preUser # Null
  /\ lastOp.preToken # Undefined

\* C7: a failed login, register or update changes neither the session nor
\* the token store, and the caller receives the response's error body
C7_FailureLeavesSession ==
  [][lastOp'.kind \in {"loginFailure", "updateFailure"} =>
       /\ currentUserSubject' = currentUserSubject
       /\ localStorage' = localStorage
       /\ observer' = observer
       /\ lastOp'.delivered = lastOp'.httpError.error
       /\ (lastOp'.kind = "loginFailure" =>
             authComponent'.errors = lastOp'.httpError.error)]_vars

\* a login was rejected with the validation error body while a session existed
C7_Witness ==
  /\ lastOp.kind = "loginFailure"
  /\ lastOp.httpError.status = 422
  /\ authComponent.errors = "errors: email or password is invalid"
  /\ Authenticated

\* C8: in every state a User held by the session carries a non-empty token
C8_UserAlwaysHasToken ==
  Authenticated => Truthy(currentUserSubject.token)

\* C9: after a successful update the cached User is the returned payload,
\* the session is Authenticated, and the token held is the one held before
\* when the response carries none and the response's when it carries one
C9_UpdateKeepsOrTakesToken ==
  lastOp.kind = "updateSuccess" =>
    /\ Authenticated
    /\ currentUserSubject.username = lastOp.user.username
    /\ currentUserSubject.token =
         IF lastOp.user.token = Undefined THEN lastOp.preUser.token
         ELSE lastOp.user.token

\* C10: the session goes from Anonymous to Authenticated only on a successful
\* login, register or getCurrentUser response, never on an update response
C10_OnlyLoginAuthenticates ==
  [][(currentUserSubject = Null /\ currentUserSubject' # Null) =>
       lastOp'.kind \in {"loginSuccess", "getCurrentUserSuccess"}]_vars

\* the GET /user requests in flight
GetUserRequests == {r \in pending : r.call \in {"initAuth", "getCurrentUser"}}

\* C11: getCurrentUser invoked while an earlier invocation's request is in
\* flight issues no second request: at most one GET /user is in flight
C11_OneRequestForConcurrentCalls ==
  Cardinality(GetUserRequests) <= 1

\* C12: the initializer never fails the boot: once its getCurrentUser request
\* has settled the application starts, Authenticated after a success and
\* Anonymous after a failure
C12_InitializerNeverFailsBoot ==
  (lastOp.call = "initAuth" /\
   lastOp.kind \in {"getCurrentUserSuccess", "getCurrentUserFailure"}) =>
    /\ phase = "starting"
    /\ Authenticated = (lastOp.kind = "getCurrentUserSuccess")

\* C13: no guard runs before the initializer has resolved (at the first
\* navigation the initializer's request is no longer in flight), and with a
\* persisted token that the server accepted the guards of the first
\* navigation observe isAuthenticated = true
C13_GuardsAfterInitializer ==
  (lastOp.kind = "navigate" /\ lastOp.initial) =>
    /\ GetUserRequests = {}
    /\ lastOp.preToken # Undefined =>
         /\ observer.auth
         /\ lastOp.call \in ProtectedRoutes => lastOp.activated
         /\ lastOp.call \in GuestRoutes => ~lastOp.activated

\* the first navigation goes to /settings after the persisted token was accepted
C13_Witness ==
  /\ lastOp.kind = "navigate"
  /\ lastOp.initial
  /\ lastOp.call = "settings"
  /\ lastOp.preToken # Undefined
  /\ lastOp.activated

\* C14: with no token persisted at boot the initializer completes at once
\* without a request and the session stays Anonymous; the guest-only guard
\* then returns true and the auth-required guard false
C14_BootWithoutToken ==
  /\ (lastOp.kind = "initAuth" /\ lastOp.preToken = Undefined) =>
       /\ phase = "starting"
       /\ pending = {}
       /\ lastOp.issued = 0
       /\ ~Authenticated
       /\ ~observer.auth
       /\ GuestOnlyGuard(Svc)
       /\ ~AuthRequiredGuard(Svc)
  /\ (lastOp.kind = "navigate" /\ lastOp.initial /\ lastOp.preToken = Undefined) =>
       /\ lastOp.call \in GuestRoutes => lastOp.activated
       /\ lastOp.call \in ProtectedRoutes => ~lastOp.activated

\* the first navigation of a boot without token opened the login page
C14_Witness ==
  /\ lastOp.kind = "navigate"
  /\ lastOp.initial
  /\ lastOp.preToken = Undefined
  /\ lastOp.call = "login"
  /\ authComponent.alive

\* C15: when the persisted token is accepted with user u, then after the
\* initialization currentUser has emitted u and the token store holds u.token
C15_RestoredSession ==
  (lastOp.kind = "getCurrentUserSuccess" /\ lastOp.call = "initAuth") =>
    /\ phase = "starting"
    /\ observer.user = lastOp.user
    /\ currentUserSubject = lastOp.user
    /\ localStorage = lastOp.user.token

\* the server answered the persisted token with a user that carries another token
C15_Witness ==
  /\ lastOp.kind = "getCurrentUserSuccess"
  /\ lastOp.call = "initAuth"
  /\ lastOp.preToken = "abc"
  /\ lastOp.user.token = "xyz"

\* C16: in every session state a navigation to /login or /register is
\* activated exactly when isAuthenticated is false, one to /settings or
\* /editor exactly when it is true, and one to home or an article always
C16_GuardsFollowSession ==
  lastOp.kind = "navigate" =>
    /\ lastOp.call \in GuestRoutes => lastOp.activated = ~observer.auth
    /\ lastOp.call \in ProtectedRoutes => lastOp.activated = observer.auth
    /\ lastOp.call \in OpenRoutes => lastOp.activated
    /\ observer.auth = Authenticated

\* a navigation to the editor was refused after a logout
C16_Witness ==
  /\ lastOp.kind = "navigate"
  /\ lastOp.call = "editor"
  /\ ~lastOp.initial
  /\ ~lastOp.activated
  /\ localStorage = Undefined

\* C19: a new subscriber of currentUser receives at once the present session
\* value and nothing else; two subscriptions in succession receive the same
C19_ReplayOfLatest ==
  [][lastOp'.kind = "subscribe" =>
       /\ lastOp'.emitted = <<currentUserSubject'>>
       /\ lastOp.kind = "subscribe" => lastOp'.emitted = lastOp.emitted]_vars

\* a subscriber received a user at once
C19_Witness ==
  /\ lastOp.kind = "subscribe"
  /\ Len(lastOp.emitted) = 1
  /\ lastOp.emitted[1] # Null

\* the content of a user, apart from the identity of the object
Content(user) == [username |-> user.username, token |-> user.token]

\* C20: when the session is set to a User whose content equals the value
\* emitted before, the subscriber receives no second emission
C20_EqualContentSuppressed ==
  [][(lastOp'.kind \in {"loginSuccess", "getCurrentUserSuccess", "updateSuccess"}
      /\ Content(lastOp'.user) = Content(observer.user)) =>
       observer'.user = observer.user]_vars

\* the isAuthenticated value the directive's subscriber handled last
LastEmitted == IsAuthenticatedMap(directive.key)

\* C17: after any sequence of emissions the view of an attached directive is
\* mounted exactly when the last emitted value a satisfies
\* (want and a) or (not want and not a)
C17_ViewTracksLastEmission ==
  directive.alive =>
    directive.hasView = ShouldShow(directive.condition, LastEmitted)

\* C18: an emission equal to the one before it causes neither a mount nor an
\* unmount
C18_IdempotentOnRepeatedEmission ==
  [][(directive.alive /\ directive'.alive
      /\ directive'.key # directive.key
      /\ IsAuthenticatedMap(directive'.key) = LastEmitted) =>
       directive'.hasView = directive.hasView]_vars

\* C21: a request sent carries Authorization: Token <t> exactly when the
\* token store holds a token when it is sent, t being the stored token; with
\* an empty store it carries no Authorization header
C21_AuthorizationFollowsStore ==
  lastOp.issued = 1 =>
    IF lastOp.preToken # Undefined
    THEN lastOp.header = "Token " \o lastOp.preToken
    ELSE lastOp.header = Undefined

\* PUT /user was sent while the store held "xyz"
C21_Witness ==
  /\ lastOp.kind = "update"
  /\ lastOp.issued = 1
  /\ lastOp.preToken = "xyz"
  /\ lastOp.header = "Token xyz"

\* the requests of the control that are in flight
ControlRequests ==
  {i \in DOMAIN control.subs : control.subs[i].req # NoRequest}

\* C22: an activation of the favorite or follow control in an Anonymous
\* session issues no request and emits no toggle event; the favorite control
\* navigates to /register and the follow control to /login
C22_AnonymousActivationAborts ==
  (lastOp.kind = "toggle" /\ lastOp.preUser = Null) =>
    /\ lastOp.issued = 0
    /\ ControlRequests = {}
    /\ lastOp.emitted = <<>>
    /\ lastOp.call = "favorite" => lastOp.nav = "/register"
    /\ lastOp.call = "follow" => lastOp.nav = "/login"

\* the follow button was clicked by a visitor who is not logged in
C22_Witness ==
  /\ lastOp.kind = "toggle"
  /\ lastOp.preUser = Null
  /\ lastOp.call = "follow"
  /\ lastOp.nav = "/login"
  /\ control.alive

\* C23: after an activation in an Anonymous session the control is not busy
C23_AnonymousActivationClearsBusy ==
  (lastOp.kind = "toggle" /\ lastOp.preUser = Null) => ~control.isSubmitting

\* C24: a control has at most one request in flight
C24_AtMostOneInFlight ==
  Cardinality(ControlRequests) <= 1

\* C25: no subscription of the control acts again on a later emission of
\* isAuthenticated: a request or a redirect comes only from an activation
C25_OneReadPerActivation ==
  \A i \in DOMAIN control.subs : ~control.subs[i].again

\* C26: when the request of an authenticated activation succeeds the control
\* is not busy and emits one toggle event: true after favorite, false after
\* unfavorite, the returned profile after follow and unfollow
C26_SuccessEmitsNewState ==
  lastOp.kind = "controlSuccess" =>
    /\ ~control.isSubmitting
    /\ Len(lastOp.emitted) = 1
    /\ lastOp.call = "favorite" => lastOp.emitted[1] = TRUE
    /\ lastOp.call = "unfavorite" => lastOp.emitted[1] = FALSE
    /\ lastOp.call \in {"follow", "unfollow"} =>
         lastOp.emitted[1] = [following |-> (lastOp.call = "follow")]

\* C27: when the request of an authenticated activation fails the control is
\* not busy, no toggle event is emitted and the toggle state is as before;
\* the activation after it issues a request again
C27_FailureAllowsRetry ==
  /\ lastOp.kind = "controlFailure" =>
       /\ ~control.isSubmitting
       /\ lastOp.emitted = <<>>
       /\ control.on = lastOp.preOn
  /\ (lastOp.kind = "toggle" /\ lastOp.retry /\ lastOp.preUser # Null) =>
       /\ lastOp.issued = 1
       /\ control.subs[Len(control.subs)].req.call = ControlCall(control)

\* the button was clicked again after its request had failed
C27_Witness ==
  /\ lastOp.kind = "toggle"
  /\ lastOp.retry
  /\ lastOp.preUser # Null
  /\ lastOp.issued = 1
  /\ Cardinality(ControlRequests) = 1

\* C28: once the directive is detached no emission of isAuthenticated makes
\* it mount or unmount anything: it stays as the detach left it
C28_DetachedDirectiveIsInert ==
  directive.detached =>
    /\ ~directive.alive
    /\ ~directive.hasView
    /\ directive.key = Null

\* the session changed after the directive had been detached
C28_Witness ==
  /\ directive.detached
  /\ lastOp.kind \in {"getCurrentUserSuccess", "updateSuccess", "loginSuccess"}
  /\ currentUserSubject # lastOp.preUser

\* the turns in which a UserService operation or one of its response
\* handlers runs setAuth, purgeAuth or currentUserSubject.next
ManagerKinds ==
  {"loginSuccess", "logout", "getCurrentUserSuccess", "getCurrentUserFailure",
   "updateSuccess"}

IsWrite(c) == c.op \in {"saveToken", "destroyToken"}

\* what a single cell holds after the calls of the log, of which one at
\* least writes: the token of the last saveToken, nothing after a destroyToken
CellAfter(log) ==
  LET w == SelectSeq(log, IsWrite)
  IN IF w[Len(w)].op = "saveToken" THEN w[Len(w)].token ELSE Undefined

\* C30: after any sequence of saveToken and destroyToken calls getToken
\* returns the token of the most recent saveToken when no destroyToken
\* followed it and nothing otherwise
C30_TokenStoreIsOneCell ==
  /\ SelectSeq(calls, IsWrite) # <<>> =>
       GetToken(localStorage) = CellAfter(calls)
  /\ \A i \in DOMAIN calls :
       (calls[i].op = "getToken"
        /\ SelectSeq(SubSeq(calls, 1, i - 1), IsWrite) # <<>>) =>
         calls[i].token = CellAfter(SubSeq(calls, 1, i - 1))

\* saveToken("abc"), destroyToken(), saveToken("xyz"), then getToken()
C30_Witness ==
  /\ Len(calls) = 4
  /\ calls[1] = JwtCall("saveToken", "abc")
  /\ calls[2].op = "destroyToken"
  /\ calls[3] = JwtCall("saveToken", "xyz")
  /\ calls[4] = JwtCall("getToken", "xyz")

\* the turns in which login, register, getCurrentUser or logout change the
\* session: setAuth and purgeAuth run in them
SessionTurns ==
  {"loginSuccess", "getCurrentUserSuccess", "getCurrentUserFailure", "logout"}

\* C31: whenever the subscriber of currentUser is notified of a session
\* change caused by login, register, getCurrentUser or logout, the token
\* store has already been updated when its handler runs: it holds the
\* token of the user it is notified of, and nothing when it is notified of
\* null
C31_StoreUpdatedBeforeNotification ==
  (lastOp.kind \in SessionTurns /\ currentUserSubject # lastOp.preUser) =>
    /\ observer.user = currentUserSubject
    /\ observer.store = IF observer.user = Null THEN Undefined
                        ELSE observer.user.token

\* a login answered with a user whose token differs from the one that was
\* in the store: the subscriber, notified of the user, read the new token
C31_Witness ==
  /\ lastOp.kind = "loginSuccess"
  /\ currentUserSubject # lastOp.preUser
  /\ lastOp.preToken # Undefined
  /\ lastOp.preToken # currentUserSubject.token
  /\ observer.store = currentUserSubject.token

\* C32: the failure response to a getCurrentUser request that was in flight
\* when a login or register succeeded leaves the newer session alone: the
\* session still holds the user who logged in and the token store still
\* holds that user's token
C32_LateFailureKeepsNewerSession ==
  [][(lastOp.kind = "loginSuccess" /\ lastOp'.kind = "getCurrentUserFailure") =>
       /\ currentUserSubject' = currentUserSubject
       /\ currentUserSubject' # Null
       /\ GetToken(localStorage') = currentUserSubject.token]_vars

\* C33: a subscriber of isAuthenticated never receives the same boolean
\* twice in a row: every emission that reaches it (a value that passed the
\* stream's distinctUntilChanged) differs from the boolean it received last
C33_ConsecutiveEmissionsDiffer ==
  [][observer'.authKey # observer.authKey => observer'.auth # observer.auth]_vars

\* C34: in the auth form submitForm sets isSubmitting and empties errors;
\* when the login or register call completes isSubmitting is false again,
\* on success as well as on error; on error the rejection value is stored
\* in errors and nothing navigates
C34_SubmittingResetOnCompletion ==
  /\ lastOp.kind = "submitForm" =>
       authComponent.isSubmitting /\ authComponent.errors = EmptyErrors
  /\ lastOp.kind = "loginSuccess" => ~authComponent.isSubmitting
  /\ lastOp.kind = "loginFailure" =>
       /\ ~authComponent.isSubmitting
       /\ authComponent.errors = lastOp.delivered
       /\ lastOp.nav = ""

\* C35: the loading state of the article list goes from NOT_LOADED (or
\* LOADED) to LOADING when a query starts, from LOADING to LOADED when the
\* query succeeds and from LOADING to ERROR when it fails; it is never
\* LOADING when no query is in flight any more
C35_LoadingFollowsQuery ==
  /\ (lastOp.kind \in {"config", "setPageTo"} /\ lastOp.issued = 1) =>
       articleList.loading = "LOADING"
  /\ (lastOp.kind = "querySuccess" /\ lastOp.preLoading = "LOADING") =>
       articleList.loading = "LOADED"
  /\ (lastOp.kind = "queryFailure" /\ lastOp.preLoading = "LOADING"
      /\ lastOp.answered = articleList.issued) =>
       articleList.loading = "ERROR"
  /\ articleList.loading = "LOADING" => articleList.queries # {}

\* C36: whenever the article list is LOADED, what it displays is the
\* response to the query issued last, the one for the current config and
\* currentPage: a response to an earlier query that arrives after a newer
\* query was started is never displayed
C36_ShowsLatestQuery ==
  articleList.loading = "LOADED" =>
    /\ articleList.shown = articleList.issued
    /\ articleList.results =
         Articles([config |-> articleList.query,
                   filters |-> Filters(articleList)])

C38_CanModifyFollowsSession ==
  comment.alive =>
    /\ comment.canModify =
         (currentUserSubject # Null
          /\ currentUserSubject.username = comment.author)
    /\ currentUserSubject = Null => ~comment.canModify

\* the author of a rendered comment logs in: canModify$ turns true
C38_Witness ==
  /\ lastOp.kind = "loginSuccess"
  /\ lastOp.preUser = Null
  /\ comment.alive
  /\ comment.author = currentUserSubject.username
  /\ comment.canModify

====
